---- MODULE Spec2Model ----
(***************************************************************************)
(* Model of the machine-setup commands: the symlink command                *)
(* (src/commands/symlink.rs), the copy command (src/commands/copy.rs) and  *)
(* the run command (src/commands/run.rs).                                  *)
(*                                                                         *)
(* One behaviour follows one config entry.  A directory entry (symlink or  *)
(* copy) is applied under a sequence of lifecycle modes to a small         *)
(* filesystem; a run entry is executed once, step by step, together with   *)
(* the shell child process it spawns.                                      *)
(***************************************************************************)
EXTENDS Integers, Sequences, FiniteSets, TLC

\* Bounds of the model.
MaxOps == 2        \* lifecycle operations applied to one directory entry
PipeCap == 1       \* lines an OS pipe holds before the writer blocks
MaxWrites == 3     \* lines a child process writes before it exits

VARIABLES
    entry,     \* the config entry being processed
    fs,        \* the filesystem: directory -> relative path -> node
    hist,      \* the operations applied so far, with their results
    pc,        \* position of the run command's parent process
    runMode,   \* the lifecycle mode of the run command in progress
    shell,     \* the interpreter run_task resolved
    parsed,    \* the result of get_commands in run_commands
    script,    \* TRUE while the temporary script file exists
    child,     \* the spawned shell process
    progress   \* the lines the parent handed to the progress bar

vars == <<entry, fs, hist, pc, runMode, shell, parsed, script, child, progress>>

----------------------------------------------------------------------------
\* Results (Result<(), String>, or a panic that unwinds out of the call).

Ok == [kind |-> "ok", msg |-> ""]
Err(m) == [kind |-> "err", msg |-> m]
Panic(m) == [kind |-> "panic", msg |-> m]

MsgSameDir == "Source and destination directories are the same"
MsgNoSource == "Source directory does not exist"
MsgNotFound == "path not found"

----------------------------------------------------------------------------
\* ConfigValue: string / boolean / sequence / mapping / absent.

CvStr(s) == [t |-> "str", s |-> s]
CvBool(b) == [t |-> "bool", b |-> b]
CvSeq(items) == [t |-> "seq", items |-> items]
CvMap(fields) == [t |-> "map", fields |-> fields]
CvAbsent == [t |-> "absent"]

is_array(v) == v.t = "seq"
is_hash(v) == v.t = "map"
is_string(v) == v.t = "str"
has_key(v, k) == is_hash(v) /\ k \in DOMAIN v.fields

----------------------------------------------------------------------------
\* The filesystem.

Dirs == {"S", "D"}
Paths == {".", "a", "d", "d/c"}

Parent(p) == IF p = "d/c" THEN "d" ELSE "."

\* WalkDir yields a directory before its contents; the order of siblings is
\* the order of readdir, which is not specified.
WalkOrders == {<<"a", "d", "d/c">>, <<"d", "d/c", "a">>}

NoEntry == [kind |-> "none", content |-> "", to |-> <<>>]
DirEntry == [kind |-> "dir", content |-> "", to |-> <<>>]
File(c) == [kind |-> "file", content |-> c, to |-> <<>>]
Link(dir, p) == [kind |-> "link", content |-> "", to |-> <<dir, p>>]

Put(f, dir, p, e) == [f EXCEPT ![dir][p] = e]

\* Raw path strings of config entries and the directory each resolves to:
\* "SL" is a second name of S (a symlink to it), "M" names nothing.
RawPaths == {"S", "SL", "D", "M"}
Resolve(raw) == IF raw = "SL" THEN "S" ELSE raw

dir_exists(f, d) == d \in Dirs /\ f[d]["."].kind = "dir"

\* Path::is_file follows symbolic links.
is_file(f, dir, p) ==
    LET e == f[dir][p] IN
    \/ e.kind = "file"
    \/ e.kind = "link" /\ f[e.to[1]][e.to[2]].kind = "file"

\* std::fs::remove_file unlinks a regular file or a symlink (never a directory).
remove_file(f, dir, p) ==
    IF f[dir][p].kind \in {"file", "link"}
    THEN [ok |-> TRUE, fs |-> Put(f, dir, p, NoEntry)]
    ELSE [ok |-> FALSE, fs |-> f]

\* symlink::remove_symlink_file is std::fs::remove_file.
remove_symlink_file(f, dir, p) == remove_file(f, dir, p)

\* symlink::symlink_file(src, dst): fails when dst exists in any form.
symlink_file(f, srcDir, srcP, dir, p) ==
    IF f[dir][p].kind = "none" /\ f[dir][Parent(p)].kind = "dir"
    THEN [ok |-> TRUE, fs |-> Put(f, dir, p, Link(srcDir, srcP))]
    ELSE [ok |-> FALSE, fs |-> f]

RECURSIVE create_dir_all(_, _, _)
create_dir_all(f, dir, p) ==
    IF f[dir][p].kind = "dir" THEN [ok |-> TRUE, fs |-> f]
    ELSE IF f[dir][p].kind # "none" THEN [ok |-> FALSE, fs |-> f]
    ELSE IF p = "." THEN [ok |-> TRUE, fs |-> Put(f, dir, p, DirEntry)]
    ELSE LET r == create_dir_all(f, dir, Parent(p)) IN
         IF r.ok THEN [ok |-> TRUE, fs |-> Put(r.fs, dir, p, DirEntry)] ELSE r

\* std::fs::remove_dir_all: the directory and everything below it.
remove_dir_all(f, dir) == [f EXCEPT ![dir] = [p \in Paths |-> NoEntry]]

\* std::fs::copy(from, to): opens `to` for writing with create and truncate,
\* following a symlink at `to`; copying a file onto itself truncates it.
write_file(f, dir, p, c) ==
    LET e == f[dir][p] IN
    IF e.kind = "file" \/ (e.kind = "none" /\ f[dir][Parent(p)].kind = "dir")
    THEN [ok |-> TRUE, fs |-> Put(f, dir, p, File(c))]
    ELSE [ok |-> FALSE, fs |-> f]

fs_copy(f, srcDir, srcP, dir, p) ==
    LET e == f[dir][p]
        c == f[srcDir][srcP].content
    IN  IF e.kind = "link"
        THEN IF e.to = <<srcDir, srcP>>
             THEN [ok |-> TRUE, fs |-> Put(f, srcDir, srcP, File(""))]
             ELSE write_file(f, e.to[1], e.to[2], c)
        ELSE write_file(f, dir, p, c)

\* expand_path / expand_dir: resolve a raw path; create a missing directory
\* when asked to, otherwise a missing path is an error.
expand_path(f, raw, create) ==
    LET d == Resolve(raw) IN
    IF dir_exists(f, d) THEN [ok |-> TRUE, dir |-> d, fs |-> f]
    ELSE IF create /\ d \in Dirs
         THEN [ok |-> TRUE, dir |-> d, fs |-> create_dir_all(f, d, ".").fs]
         ELSE [ok |-> FALSE, dir |-> d, fs |-> f]

----------------------------------------------------------------------------
\* symlink.rs

should_force(args) ==
    IF ~is_hash(args) THEN FALSE
    ELSE IF "force" \in DOMAIN args.fields
         THEN (IF args.fields["force"].t = "bool" THEN args.fields["force"].b ELSE FALSE)
         ELSE FALSE

\* link_action with the link created only when nothing was removed.
link_action_unlinked(f, srcDir, dir, p, force) ==
    IF force /\ is_file(f, dir, p) THEN remove_file(f, dir, p).fs
    ELSE symlink_file(f, srcDir, p, dir, p).fs

\* The closure link_files hands to walk_files: its value is (), the results
\* of remove_file and symlink_file are dropped with .ok().
link_action(f, srcDir, dir, p, force) ==
    LET f1 == IF force /\ is_file(f, dir, p) THEN remove_file(f, dir, p).fs ELSE f
    IN  symlink_file(f1, srcDir, p, dir, p).fs

\* The closure unlink_files hands to walk_files.
unlink_action(f, srcDir, dir, p) == remove_symlink_file(f, dir, p).fs

walk_action(act, f, srcDir, dir, p) ==
    CASE act = "link" -> link_action(f, srcDir, dir, p, FALSE)
      [] act = "force_link" -> link_action(f, srcDir, dir, p, TRUE)
      [] OTHER -> unlink_action(f, srcDir, dir, p)

\* walk_files: every entry below the source root, directories mirrored,
\* files handed to the action.
RECURSIVE walk_from(_, _, _, _, _, _)
walk_from(f, srcDir, dir, order, i, act) ==
    IF i > Len(order) THEN [res |-> Ok, fs |-> f]
    ELSE LET p == order[i]
             k == f[srcDir][p].kind
         IN  IF k = "none" THEN walk_from(f, srcDir, dir, order, i + 1, act)
             ELSE IF k = "dir"
             THEN LET r == create_dir_all(f, dir, p) IN
                  IF r.ok THEN walk_from(r.fs, srcDir, dir, order, i + 1, act)
                  ELSE [res |-> Err("Failed to create directory"), fs |-> f]
             ELSE walk_from(walk_action(act, f, srcDir, dir, p),
                            srcDir, dir, order, i + 1, act)

walk_files(f, srcDir, dir, order, act) == walk_from(f, srcDir, dir, order, 1, act)

link_files(f, srcDir, dir, order, force) ==
    walk_files(f, srcDir, dir, order, IF force THEN "force_link" ELSE "link")

unlink_files(f, srcDir, dir, order) == walk_files(f, srcDir, dir, order, "unlink")

\* create_symlink without the comparison of the two resolved directories.
create_symlink_unchecked(f, source, destination, order, force) ==
    LET s == expand_path(f, source, FALSE) IN
    IF ~s.ok THEN [res |-> Err(MsgNotFound), fs |-> f]
    ELSE IF ~dir_exists(f, s.dir) THEN [res |-> Err(MsgNoSource), fs |-> f]
    ELSE LET d == expand_path(f, destination, TRUE) IN
         IF ~d.ok THEN [res |-> Err(MsgNotFound), fs |-> d.fs]
         ELSE link_files(d.fs, s.dir, d.dir, order, force)

create_symlink(f, source, destination, order, force) ==
    LET s == expand_path(f, source, FALSE) IN
    IF ~s.ok THEN [res |-> Err(MsgNotFound), fs |-> f]
    ELSE IF ~dir_exists(f, s.dir) THEN [res |-> Err(MsgNoSource), fs |-> f]
    ELSE LET d == expand_path(f, destination, TRUE) IN
         IF ~d.ok THEN [res |-> Err(MsgNotFound), fs |-> d.fs]
         ELSE IF s.dir = d.dir THEN [res |-> Err(MsgSameDir), fs |-> d.fs]
         ELSE link_files(d.fs, s.dir, d.dir, order, force)

remove_symlink(f, source, destination, order) ==
    LET s == expand_path(f, source, FALSE) IN
    IF ~s.ok THEN [res |-> Err(MsgNotFound), fs |-> f]
    ELSE LET d == expand_path(f, destination, FALSE) IN
         IF ~d.ok THEN [res |-> Err(MsgNotFound), fs |-> f]
         ELSE unlink_files(f, s.dir, d.dir, order)

----------------------------------------------------------------------------
\* copy.rs

RECURSIVE copy_from(_, _, _, _, _)
copy_from(f, srcDir, dir, order, i) ==
    IF i > Len(order) THEN [res |-> Ok, fs |-> f]
    ELSE LET p == order[i]
             k == f[srcDir][p].kind
         IN  IF k = "none" THEN copy_from(f, srcDir, dir, order, i + 1)
             ELSE IF k = "dir"
             THEN LET r == create_dir_all(f, dir, p) IN
                  IF r.ok THEN copy_from(r.fs, srcDir, dir, order, i + 1)
                  ELSE [res |-> Err("Failed to create directory"), fs |-> f]
             ELSE LET r == fs_copy(f, srcDir, p, dir, p) IN
                  IF r.ok THEN copy_from(r.fs, srcDir, dir, order, i + 1)
                  ELSE [res |-> Err("Failed to copy file"), fs |-> f]

copy_files(f, srcDir, dir, order) == copy_from(f, srcDir, dir, order, 1)

copy_dir(f, source, destination, order) ==
    LET s == expand_path(f, source, FALSE) IN
    IF ~s.ok THEN [res |-> Err(MsgNotFound), fs |-> f]
    ELSE IF ~dir_exists(f, s.dir) THEN [res |-> Err(MsgNoSource), fs |-> f]
    ELSE LET d == expand_path(f, destination, TRUE) IN
         IF ~d.ok THEN [res |-> Err(MsgNotFound), fs |-> d.fs]
         ELSE IF s.dir = d.dir THEN [res |-> Err(MsgSameDir), fs |-> d.fs]
         ELSE copy_files(d.fs, s.dir, d.dir, order)

remove_dir(f, target) ==
    LET t == expand_path(f, target, FALSE) IN
    IF ~t.ok THEN [res |-> Err(MsgNotFound), fs |-> f]
    ELSE [res |-> Ok, fs |-> remove_dir_all(f, t.dir)]

----------------------------------------------------------------------------
\* run.rs

Modes == {"install", "uninstall", "update"}

\* TaskRunnerMode::to_string: the canonical lowercase name of the mode.
method_name(mode) == mode

MaxCmds == 2       \* commands in one command sequence
Cmds == {"c1", "c2"}

\* as_str().unwrap() on every element: a non-string element panics.
get_commands_from_yaml(args) ==
    IF is_array(args)
    THEN IF \A i \in DOMAIN args.items : is_string(args.items[i])
         THEN [res |-> Ok, cmds |-> [i \in DOMAIN args.items |-> args.items[i].s]]
         ELSE [res |-> Panic("called unwrap on None"), cmds |-> <<>>]
    ELSE IF is_string(args)
         THEN [res |-> Ok, cmds |-> <<args.s>>]
         ELSE [res |-> Panic("called unwrap on None"), cmds |-> <<>>]

\* OneOf { IsArray, IsString }.
is_str_or_array(v) == is_array(v) \/ is_string(v)

arguments_are_named(v) == is_hash(v)

validate_args(v) ==
    IF is_str_or_array(v) THEN Ok ELSE Err("must be an array | must be a string")

validate_named_args(v, key) ==
    IF is_str_or_array(v.fields[key]) THEN Ok
    ELSE Err("named argument: must be an array | must be a string")

\* get_commands looking up the install key under every mode.
get_commands_install_key(args, mode) ==
    IF arguments_are_named(args)
    THEN IF ~has_key(args, "install") THEN [res |-> Ok, cmds |-> <<>>]
         ELSE IF validate_named_args(args, "install").kind # "ok"
              THEN [res |-> validate_named_args(args, "install"), cmds |-> <<>>]
              ELSE get_commands_from_yaml(args.fields["install"])
    ELSE IF validate_args(args).kind # "ok"
         THEN [res |-> validate_args(args), cmds |-> <<>>]
         ELSE get_commands_from_yaml(args)

get_commands(args, mode) ==
    LET method == method_name(mode) IN
    IF arguments_are_named(args)
    THEN IF ~has_key(args, method) THEN [res |-> Ok, cmds |-> <<>>]
         ELSE IF validate_named_args(args, method).kind # "ok"
              THEN [res |-> validate_named_args(args, method), cmds |-> <<>>]
              ELSE get_commands_from_yaml(args.fields[method])
    ELSE IF validate_args(args).kind # "ok"
         THEN [res |-> validate_args(args), cmds |-> <<>>]
         ELSE get_commands_from_yaml(args)

\* Interpreters that can be spawned on the machine.
Installed == {"bash"}
DefaultShell == "bash"

\* get_commands has not been called.
NotParsed == [res |-> [kind |-> "none", msg |-> ""], cmds |-> <<>>]

NoChild == [state |-> "none", prog |-> <<>>, at |-> 1, out |-> <<>>, err |-> <<>>,
            code |-> 0]

\* A child program: the stream of each line it writes, then its exit code.
ChildProgs == UNION {[1..n -> {"out", "err"}] : n \in 0..MaxWrites}
ExitCodes == {0, 3}

\* The lines the child has written to a stream so far (line i is write i).
written(c, stream) ==
    LET idx == {i \in 1..(c.at - 1) : c.prog[i] = stream} IN
    [k \in 1..Cardinality(idx) |->
        CHOOSE i \in idx : Cardinality({j \in idx : j <= i}) = k]

----------------------------------------------------------------------------
\* Config entries and initial filesystems.

DirPairs == {<<"S", "D">>, <<"S", "S">>, <<"SL", "S">>, <<"M", "D">>}

DirArgs(pair, force) ==
    IF force = "absent"
    THEN CvMap([k \in {"src", "target"} |->
                    CvStr(IF k = "src" THEN pair[1] ELSE pair[2])])
    ELSE CvMap([k \in {"src", "target", "force"} |->
                    IF k = "force" THEN CvBool(force = "true")
                    ELSE CvStr(IF k = "src" THEN pair[1] ELSE pair[2])])

SymlinkEntries ==
    {[cmd |-> "symlink", args |-> DirArgs(pair, force)] :
        pair \in DirPairs, force \in {"absent", "true", "false"}}

CopyEntries == {[cmd |-> "copy", args |-> DirArgs(pair, "absent")] : pair \in DirPairs}

\* Sequences of at most MaxCmds command strings.
CmdSeqs == UNION {[1..n -> {CvStr(c) : c \in Cmds}] : n \in 0..MaxCmds}

Shorthand ==
    {CvStr(c) : c \in Cmds} \cup {CvSeq(q) : q \in CmdSeqs}
    \cup {CvBool(TRUE), CvSeq(<<CvStr("c1"), CvBool(TRUE)>>)}

ModeValues == {CvAbsent, CvStr("c1"), CvSeq(<<CvStr("c2"), CvStr("c1")>>)}

\* A mapping holding the given keys only (an absent value leaves the key out).
MapOf(vals) ==
    CvMap([k \in {k \in DOMAIN vals : vals[k] # CvAbsent} |-> vals[k]])

ModeKeyed ==
    {MapOf(vals) : vals \in [Modes -> ModeValues]}
    \cup {MapOf([k \in {"invalid"} |-> CvStr("c1")]),
          MapOf([k \in {"install"} |-> CvBool(TRUE)]),
          MapOf([k \in {"update"} |-> CvSeq(<<CvStr("c1"), CvBool(TRUE)>>)])}

CommandValues == Shorthand \cup ModeKeyed

RunArgs ==
    {CvStr("c1"), MapOf([k \in {"shell"} |-> CvStr("bash")])}
    \cup {MapOf([k \in {"commands"} |-> c]) : c \in CommandValues}
    \cup {MapOf([k \in {"commands", "shell"} |->
                    IF k = "commands" THEN CvStr("c1") ELSE sh]) :
            sh \in {CvStr("bash"), CvStr("nosuchshell"), CvBool(TRUE)}}

RunEntries == {[cmd |-> "run", args |-> a] : a \in RunArgs}

\* Initial trees.  The source holds regular files and directories; the
\* destination may hold files, directories and links left by earlier runs.
\* A mirrored directory path of the destination is absent or a directory.
SrcNodes == {NoEntry, DirEntry, File("new")}
DstNodes == {NoEntry, DirEntry, File("old"), Link("S", "a"), Link("S", "d/c")}

WellFormed(tree) ==
    \A p \in Paths \ {"."} : tree[p].kind # "none" => tree[Parent(p)].kind = "dir"

SrcTrees ==
    {t \in [Paths -> SrcNodes] :
        /\ WellFormed(t)
        /\ t["."].kind = "dir"
        /\ t["a"].kind \in {"none", "file"}
        /\ t["d"].kind \in {"none", "dir"}
        /\ t["d/c"].kind \in {"none", "file"}}

DstTrees ==
    {t \in [Paths -> DstNodes] :
        /\ WellFormed(t)
        /\ t["."].kind \in {"none", "dir"}
        /\ t["d"].kind \in {"none", "dir"}
        /\ t["d/c"] \in {NoEntry, File("old"), Link("S", "d/c")}}

MakeFs(s, d) == [x \in Dirs |-> IF x = "S" THEN s ELSE d]

EmptyTree == [p \in Paths |-> IF p = "." THEN DirEntry ELSE NoEntry]

\* get_source_and_target: the src and target strings of a directory entry.
get_source_and_target(args) ==
    IF has_key(args, "src") /\ has_key(args, "target")
    THEN [ok |-> TRUE, src |-> args.fields["src"].s, target |-> args.fields["target"].s]
    ELSE [ok |-> FALSE, src |-> "", target |-> ""]

----------------------------------------------------------------------------
\* The state machine.

Init ==
    /\ \/ /\ entry \in SymlinkEntries \cup CopyEntries
          /\ fs \in {MakeFs(s, d) : s \in SrcTrees, d \in DstTrees}
       \/ /\ entry \in RunEntries
          /\ fs = MakeFs(EmptyTree, EmptyTree)
    /\ hist = <<>>
    /\ pc = "idle"
    /\ runMode = "install"
    /\ shell = ""
    /\ parsed = NotParsed
    /\ script = FALSE
    /\ child = NoChild
    /\ progress = <<>>

Record(m, r, post) == Append(hist, [mode |-> m, res |-> r, pre |-> fs, post |-> post])

RunVars == <<pc, runMode, shell, parsed, script, child, progress>>

\* Apply the outcome r = [res, fs] of one directory operation.
Finish(m, r) ==
    /\ fs' = r.fs
    /\ hist' = Record(m, r.res, r.fs)
    /\ UNCHANGED <<entry, RunVars>>

symlink_install(f, args, order) ==
    LET dirs == get_source_and_target(args) IN
    IF ~dirs.ok THEN [res |-> Err("src and target are required"), fs |-> f]
    ELSE create_symlink(f, dirs.src, dirs.target, order, should_force(args))

symlink_uninstall(f, args, order) ==
    LET dirs == get_source_and_target(args) IN
    IF ~dirs.ok THEN [res |-> Err("src and target are required"), fs |-> f]
    ELSE remove_symlink(f, dirs.src, dirs.target, order)

copy_install(f, args, order) ==
    LET dirs == get_source_and_target(args) IN
    IF ~dirs.ok THEN [res |-> Err("src and target are required"), fs |-> f]
    ELSE copy_dir(f, dirs.src, dirs.target, order)

copy_uninstall(f, args) ==
    IF ~has_key(args, "target") THEN [res |-> Err("target is required"), fs |-> f]
    ELSE remove_dir(f, args.fields["target"].s)

\* unimplemented!()
copy_update(f, args) == [res |-> Panic("not implemented"), fs |-> f]

SymlinkInstall ==
    /\ entry.cmd = "symlink" /\ Len(hist) < MaxOps
    /\ \E order \in WalkOrders : Finish("install", symlink_install(fs, entry.args, order))

SymlinkUninstall ==
    /\ entry.cmd = "symlink" /\ Len(hist) < MaxOps
    /\ \E order \in WalkOrders : Finish("uninstall", symlink_uninstall(fs, entry.args, order))

SymlinkUpdate ==
    /\ entry.cmd = "symlink" /\ Len(hist) < MaxOps
    /\ \E order \in WalkOrders : Finish("update", symlink_install(fs, entry.args, order))

CopyInstall ==
    /\ entry.cmd = "copy" /\ Len(hist) < MaxOps
    /\ \E order \in WalkOrders : Finish("install", copy_install(fs, entry.args, order))

CopyUninstall ==
    /\ entry.cmd = "copy" /\ Len(hist) < MaxOps
    /\ Finish("uninstall", copy_uninstall(fs, entry.args))

CopyUpdate ==
    /\ entry.cmd = "copy" /\ Len(hist) < MaxOps
    /\ Finish("update", copy_update(fs, entry.args))

\* run_task up to the call of run_commands, then get_commands in it.
run_task_prepare(args, m) ==
    IF ~is_hash(args)
    THEN [res |-> Err("args is not an object"), shell |-> "", parsed |-> NotParsed]
    ELSE IF ~has_key(args, "commands")
    THEN [res |-> Err("commands key is missing in args"), shell |-> "",
          parsed |-> NotParsed]
    ELSE LET sh == IF has_key(args, "shell") THEN args.fields["shell"]
                   ELSE CvStr(DefaultShell)
         IN  IF ~is_string(sh)
             THEN [res |-> Panic("called unwrap on None"), shell |-> "",
                   parsed |-> NotParsed]
             ELSE LET c == get_commands(args.fields["commands"], m) IN
                  [res |-> c.res, shell |-> sh.s, parsed |-> c]

\* A return of run_task with result r.
Return(m, r) ==
    /\ pc' = "done"
    /\ hist' = Record(m, r, fs)

\* run_task, and run_commands up to create_script_file.
RunTask ==
    /\ entry.cmd = "run" /\ pc = "idle" /\ hist = <<>>
    /\ \E m \in Modes, created \in BOOLEAN :
        LET r == run_task_prepare(entry.args, m) IN
        /\ runMode' = m
        /\ parsed' = r.parsed
        /\ IF r.res.kind # "ok"
           THEN /\ Return(m, r.res)
                /\ UNCHANGED <<shell, script>>
           ELSE IF ~created
           THEN /\ Return(m, Err("Failed to create script file"))
                /\ UNCHANGED <<shell, script>>
           ELSE /\ pc' = "spawn"
                /\ shell' = r.shell
                /\ script' = TRUE
                /\ UNCHANGED hist
    /\ UNCHANGED <<entry, fs, child, progress>>

\* Command::new(shell) ... .spawn(), and the early return on its failure.
Spawn ==
    /\ pc = "spawn"
    /\ IF shell \notin Installed
       THEN /\ Return(runMode, Err("No such file or directory"))
            /\ UNCHANGED child
       ELSE /\ \E prog \in ChildProgs, code \in ExitCodes :
                /\ parsed.cmds = <<>> => (prog = <<>> /\ code = 0)
                /\ child' = [state |-> "running", prog |-> prog, at |-> 1,
                             out |-> <<>>, err |-> <<>>, code |-> code]
            /\ pc' = "read"
            /\ UNCHANGED hist
    /\ UNCHANGED <<entry, fs, runMode, shell, parsed, script, progress>>

\* The child writes its next line; it blocks while that pipe is full.
ChildWrite ==
    /\ child.state = "running" /\ child.at <= Len(child.prog)
    /\ IF child.prog[child.at] = "out"
       THEN /\ Len(child.out) < PipeCap
            /\ child' = [child EXCEPT !.out = Append(@, child.at), !.at = @ + 1]
       ELSE /\ Len(child.err) < PipeCap
            /\ child' = [child EXCEPT !.err = Append(@, child.at), !.at = @ + 1]
    /\ UNCHANGED <<entry, fs, hist, pc, runMode, shell, parsed, script, progress>>

\* The child has written everything: it exits, closing its ends of the pipes.
ChildExit ==
    /\ child.state = "running" /\ child.at > Len(child.prog)
    /\ child' = [child EXCEPT !.state = "exited"]
    /\ UNCHANGED <<entry, fs, hist, pc, runMode, shell, parsed, script, progress>>

\* reader.lines() ... for_each: one line of the child's standard output.
ReadLine ==
    /\ pc = "read" /\ child.out # <<>>
    /\ progress' = Append(progress, Head(child.out))
    /\ child' = [child EXCEPT !.out = Tail(@)]
    /\ UNCHANGED <<entry, fs, hist, pc, runMode, shell, parsed, script>>

\* End of the child's standard output: the read loop ends.
ReadEof ==
    /\ pc = "read" /\ child.out = <<>> /\ child.state = "exited"
    /\ pc' = "wait"
    /\ UNCHANGED <<entry, fs, hist, runMode, shell, parsed, script, child, progress>>

\* command.wait(), remove_file(temp_script) and the result of run_commands.
run_result(code) == IF code = 0 THEN Ok ELSE Err("ERR")

Wait ==
    /\ pc = "wait" /\ child.state = "exited"
    /\ script' = FALSE
    /\ Return(runMode, run_result(child.code))
    /\ UNCHANGED <<entry, fs, runMode, shell, parsed, child, progress>>

Next ==
    \/ SymlinkInstall
    \/ SymlinkUninstall
    \/ SymlinkUpdate
    \/ CopyInstall
    \/ CopyUninstall
    \/ CopyUpdate
    \/ RunTask
    \/ Spawn
    \/ ChildWrite
    \/ ChildExit
    \/ ReadLine
    \/ ReadEof
    \/ Wait

Spec == Init /\ [][Next]_vars

----------------------------------------------------------------------------
\* Properties.

IsDirEntry == entry.cmd \in {"symlink", "copy"}
SrcDir == Resolve(entry.args.fields["src"].s)
DstDir == Resolve(entry.args.fields["target"].s)

\* hist[i] is a call of create_symlink or copy_dir.
IsInstallCall(i) ==
    \/ entry.cmd = "symlink" /\ hist[i].mode \in {"install", "update"}
    \/ entry.cmd = "copy" /\ hist[i].mode = "install"

\* The entry's source and destination resolve to the same directory in f.
SameDir(f) == dir_exists(f, SrcDir) /\ SrcDir = DstDir

\* The entry's source exists in f and is not its destination.
ValidDirs(f) == dir_exists(f, SrcDir) /\ SrcDir # DstDir

\* The symbolic links of a directory, each with its target.
Links(f, d) == {<<p, f[d][p].to>> : p \in {q \in Paths : f[d][q].kind = "link"}}

\* C1: when source and destination resolve to the same directory,
\* create_symlink and copy_dir return the "same directory" error and leave
\* the filesystem exactly as it was.
C1_SameDirRejected ==
    \A i \in DOMAIN hist :
        (IsDirEntry /\ IsInstallCall(i) /\ SameDir(hist[i].pre)) =>
            /\ hist[i].res = Err(MsgSameDir)
            /\ hist[i].post = hist[i].pre

\* A same-directory install of a tree that holds a file has returned, through
\* a second name of the directory.
C1_Witness ==
    \E i \in DOMAIN hist :
        /\ IsDirEntry /\ IsInstallCall(i) /\ SameDir(hist[i].pre)
        /\ entry.args.fields["src"].s # entry.args.fields["target"].s
        /\ hist[i].pre["S"]["a"].kind = "file"
        /\ hist[i].res.kind = "err"

\* C2: a successful install followed by uninstall leaves every destination
\* file or link that existed before the install, and that the install did not
\* create or change, present and unchanged.
C2_RoundTrip ==
    \A i \in DOMAIN hist :
        (/\ IsDirEntry /\ i < Len(hist)
         /\ hist[i].mode = "install" /\ hist[i].res = Ok
         /\ hist[i + 1].mode = "uninstall") =>
            \A p \in Paths \ {"."} :
                (/\ hist[i].pre[DstDir][p].kind \in {"file", "link"}
                 /\ hist[i].post[DstDir][p] = hist[i].pre[DstDir][p]) =>
                    hist[i + 1].post[DstDir][p] = hist[i].pre[DstDir][p]

Conflicts(f) ==
    {p \in Paths : f[SrcDir][p].kind = "file" /\ f[DstDir][p].kind = "file"}

\* C4: with a regular file at the mirrored path of a source file,
\* create_symlink with force returns Ok and the path is a symlink to the
\* source file; without force it returns an error and the file is unchanged.
C4_ForceOrFail ==
    \A i \in DOMAIN hist :
        (/\ entry.cmd = "symlink" /\ hist[i].mode = "install"
         /\ ValidDirs(hist[i].pre) /\ Conflicts(hist[i].pre) # {}) =>
            IF should_force(entry.args)
            THEN /\ hist[i].res = Ok
                 /\ \A p \in Conflicts(hist[i].pre) :
                        hist[i].post[DstDir][p] = Link(SrcDir, p)
            ELSE /\ hist[i].res.kind = "err"
                 /\ \A p \in Conflicts(hist[i].pre) :
                        hist[i].post[DstDir][p] = hist[i].pre[DstDir][p]

\* C5: once run_commands has returned, no script file it created remains.
C5_ScriptRemoved == pc = "done" => ~script

\* What the claim expects as the error of a failed child: its standard error
\* if it wrote any, else its standard output if it wrote any, else the
\* generic marker.
ExpectedError ==
    IF written(child, "err") # <<>> THEN "captured standard error"
    ELSE IF written(child, "out") # <<>> THEN "captured standard output"
    ELSE "ERR"

\* C6: a child that exits non-zero makes run_commands return an error whose
\* message is the child's standard error, else its standard output, else a
\* generic marker; a child that exits zero makes it return Ok.
C6_ErrorFromOutput ==
    (pc = "done" /\ child.state = "exited") =>
        hist[1].res = IF child.code = 0 THEN Ok ELSE Err(ExpectedError)

\* A string, or a sequence of strings.
StringOrStrings(v) ==
    \/ v.t = "str"
    \/ v.t = "seq" /\ \A i \in DOMAIN v.items : v.items[i].t = "str"

\* The reference of C7: a string is a one-element list, a sequence its
\* strings in order; a mapping gives the value under the mode's name,
\* flattened the same way, or nothing when it has no such key.
Flatten(v) ==
    IF v.t = "str" THEN <<v.s>> ELSE [i \in 1..Len(v.items) |-> v.items[i].s]

RefCommands(v, m) ==
    IF v.t = "map"
    THEN IF m \in DOMAIN v.fields THEN Flatten(v.fields[m]) ELSE <<>>
    ELSE Flatten(v)

\* The command values C7 speaks of.
InReference(v, m) ==
    \/ StringOrStrings(v)
    \/ v.t = "map" /\ (m \in DOMAIN v.fields => StringOrStrings(v.fields[m]))

\* C7: get_commands returns Ok with the reference's command list, for every
\* mode.
C7_GetCommandsReference ==
    (entry.cmd = "run" /\ parsed # NotParsed
        /\ InReference(entry.args.fields["commands"], runMode)) =>
            parsed = [res |-> Ok,
                      cmds |-> RefCommands(entry.args.fields["commands"], runMode)]

\* get_commands has resolved a two-command sequence under the uninstall key
\* of a mapping that also has other modes' keys.
C7_Witness ==
    /\ entry.cmd = "run" /\ parsed # NotParsed
    /\ runMode = "uninstall"
    /\ has_key(entry.args.fields["commands"], "uninstall")
    /\ has_key(entry.args.fields["commands"], "install")
    /\ entry.args.fields["commands"].fields["install"] = CvStr("c1")
    /\ parsed.cmds = <<"c2", "c1">>

\* C8: no operation of the run, symlink or copy command panics.
C8_NoPanic == \A i \in DOMAIN hist : hist[i].res.kind # "panic"

\* C9: a symlink uninstall that returns Ok leaves the source tree as it was.
C9_UninstallKeepsSource ==
    \A i \in DOMAIN hist :
        (entry.cmd = "symlink" /\ hist[i].mode = "uninstall" /\ hist[i].res = Ok) =>
            hist[i].post[SrcDir] = hist[i].pre[SrcDir]

\* The child is blocked writing to a full pipe.
ChildBlocked ==
    /\ child.state = "running" /\ child.at <= Len(child.prog)
    /\ Len(IF child.prog[child.at] = "out" THEN child.out ELSE child.err) >= PipeCap

\* C10: the child never stays blocked on a full output pipe: whenever it is
\* blocked, the parent is able to take a line out of a pipe.  (With the
\* parent in its read loop on an empty standard output, neither process can
\* ever move again.)
C10_NoPipeDeadlock == ChildBlocked => (pc = "read" /\ child.out # <<>>)

\* C11: create_symlink with force never removes an existing symlink or an
\* existing directory at a mirrored destination path: each is still there,
\* with the same target, after the call.
C11_ForceKeepsLinksAndDirs ==
    \A i \in DOMAIN hist :
        (/\ entry.cmd = "symlink" /\ hist[i].mode \in {"install", "update"}
         /\ should_force(entry.args) /\ ValidDirs(hist[i].pre)) =>
            \A p \in Paths \ {"."} :
                hist[i].pre[DstDir][p].kind \in {"link", "dir"} =>
                    hist[i].post[DstDir][p] = hist[i].pre[DstDir][p]

\* C12: copy_dir returns an error when a regular file exists at the mirrored
\* destination path of a source file, and that file keeps its content.
C12_CopyKeepsExistingFile ==
    \A i \in DOMAIN hist :
        (/\ entry.cmd = "copy" /\ hist[i].mode = "install"
         /\ ValidDirs(hist[i].pre) /\ Conflicts(hist[i].pre) # {}) =>
            /\ hist[i].res.kind = "err"
            /\ \A p \in Conflicts(hist[i].pre) :
                   hist[i].post[DstDir][p] = hist[i].pre[DstDir][p]

====
